---- MODULE Spec2Model ----
(***************************************************************************)
(* A model of go-blockchainz: Base58 / address primitives, the Merkle      *)
(* builder, transaction construction, signing and verification, the chain  *)
(* store with its iterator and the UTXO index.                             *)
(*                                                                         *)
(* Byte strings are sequences of integers.  SHA-256 is idealised as a      *)
(* collision-free, self-delimiting function (the length-framed preimage),  *)
(* so that two digests agree exactly when their preimages agree.           *)
(***************************************************************************)
EXTENDS Integers, Sequences, FiniteSets, Bags, TLC

VARIABLES
    mkData, mkOut,                 \* NewMerkleTree: its argument and outcome
    vaAddr, vaOut,                 \* ValidateAddress: its argument and outcome
    sgKey, sgPrev, sgTx, sgPc, sgOut, \* Sign / Verify: wallet key, prevTXs, tx, position, outcome
    db, lastHash,                  \* chain store: block hash -> block, and the "lh" tip pointer
    utxo,                          \* UTXO index: transaction ID -> remaining outputs
    cbNonce,                       \* number of coinbase payloads drawn so far
    res,                           \* outcome of the last command
    itHash, itPc, itYield,         \* iterator: CurrentHash, its condition, hashes of blocks returned
    itTip                          \* the tip when the iterator was created (history)

mkVars == <<mkData, mkOut>>
vaVars == <<vaAddr, vaOut>>
sgVars == <<sgKey, sgPrev, sgTx, sgPc, sgOut>>
chVars == <<db, lastHash, utxo, cbNonce, res>>
itVars == <<itHash, itPc, itYield, itTip>>
vars == <<mkVars, vaVars, sgVars, chVars, itVars>>

(***************************************************************************)
(* Bounds of the model.                                                    *)
(***************************************************************************)
MaxLeaves == 6
MaxAddrLen == 3
MaxBlocks == 3

(***************************************************************************)
(* Generic helpers.                                                        *)
(***************************************************************************)
RECURSIVE SeqsUpTo(_, _)
SeqsUpTo(S, n) ==
    IF n = 0 THEN {<<>>}
    ELSE LET prev == SeqsUpTo(S, n - 1)
         IN prev \cup {Append(s, x) : s \in {t \in prev : Len(t) = n - 1}, x \in S}

\* crypto/sha256.Sum256, idealised: injective and self-delimiting.
Sha256(b) == <<Len(b)>> \o b

NotRun == [kind |-> "none", Data |-> <<>>]

(***************************************************************************)
(* wallet: Base58 (github.com/mr-tron/base58 behind Base58Encode/Decode).  *)
(* A character is its index 0..57 in the Base58 alphabet ('1' is index 0); *)
(* 58 stands for any character outside the alphabet.  Numbers are          *)
(* big-endian byte strings without leading zero bytes, so no value is      *)
(* bounded by the width of an integer.                                     *)
(***************************************************************************)
RECURSIVE LeadingZeros(_)
LeadingZeros(s) ==
    IF s # <<>> /\ s[1] = 0 THEN 1 + LeadingZeros(Tail(s)) ELSE 0

Zeros(n) == [k \in 1..n |-> 0]

Drop(s, n) == SubSeq(s, n + 1, Len(s))

\* n * m + c on a big-endian byte string n, 0 <= c < 256.
RECURSIVE MulAdd(_, _, _)
MulAdd(n, m, c) ==
    IF n = <<>> THEN (IF c = 0 THEN <<>> ELSE <<c>>)
    ELSE LET v == n[Len(n)] * m + c
         IN MulAdd(SubSeq(n, 1, Len(n) - 1), m, v \div 256) \o <<v % 256>>

\* Long division of a big-endian byte string by m: quotient digits and remainder.
RECURSIVE DivMod(_, _, _, _)
DivMod(n, m, rem, quot) ==
    IF n = <<>> THEN [quot |-> Drop(quot, LeadingZeros(quot)), rem |-> rem]
    ELSE LET v == rem * 256 + n[1]
         IN DivMod(Tail(n), m, v % m, Append(quot, v \div m))

RECURSIVE Base58Digits(_)
Base58Digits(n) ==
    IF n = <<>> THEN <<>>
    ELSE LET d == DivMod(n, 58, 0, <<>>)
         IN Append(Base58Digits(d.quot), d.rem)

Base58Encode(input) ==
    LET z == LeadingZeros(input)
    IN Zeros(z) \o Base58Digits(Drop(input, z))

RECURSIVE Base58Number(_, _)
Base58Number(digits, acc) ==
    IF digits = <<>> THEN acc
    ELSE Base58Number(Tail(digits), MulAdd(acc, 58, digits[1]))

Base58DecodeFails(input) == \E k \in 1..Len(input) : input[k] \notin 0..57

\* Defined when Base58DecodeFails(input) is false; Base58Decode panics otherwise.
Base58Decode(input) ==
    LET z == LeadingZeros(input)
    IN Zeros(z) \o Base58Number(Drop(input, z), <<>>)

(***************************************************************************)
(* wallet/wallet.go                                                        *)
(***************************************************************************)
ChecksumLength == 4
Version == 0

Checksum(payload) ==
    LET secondHash == Sha256(Sha256(payload))
    IN SubSeq(secondHash, 1, ChecksumLength)

AddressOf(pubHash) ==
    LET versionedHash == <<Version>> \o pubHash
    IN Base58Encode(versionedHash \o Checksum(versionedHash))

ValidateAddress(address) ==
    IF Base58DecodeFails(address)
    THEN [kind |-> "panic: base58 decode", Data |-> <<>>]
    ELSE LET decoded == Base58Decode(address)
             n == Len(decoded)
         IN IF n < ChecksumLength \/ n = 0 \/ 1 > n - ChecksumLength
            THEN [kind |-> "panic: slice bounds out of range", Data |-> <<>>]
            ELSE LET actualChecksum == SubSeq(decoded, n - ChecksumLength + 1, n)
                     version == decoded[1]
                     pubKeyHash == SubSeq(decoded, 2, n - ChecksumLength)
                     targetChecksum == Checksum(<<version>> \o pubKeyHash)
                 IN [kind |-> IF actualChecksum = targetChecksum THEN "true" ELSE "false",
                     Data |-> <<>>]

\* An integer digest of a byte string: a position-weighted sum of its
\* elements (summed as the cardinality of a bag).
Digest(msg) ==
    BagCardinality([i \in 1..Len(msg) |-> 1 + (((msg[i] + 2) * (i + 13)) % 997)]) % 997

\* golang.org/x/crypto/ripemd160: a lossy digest, scaled to one byte.
Ripemd160(b) == <<Digest(b) % 256>>

PublicKeyHash(pubKey) == Ripemd160(Sha256(pubKey))

\* math/big: Int.Bytes() is the minimal big-endian form (no leading zero
\* byte, empty for 0); Int.SetBytes() reads a big-endian byte string.
RECURSIVE IntBytes(_)
IntBytes(n) == IF n = 0 THEN <<>> ELSE IntBytes(n \div 256) \o <<n % 256>>

RECURSIVE SetBytes(_)
SetBytes(b) ==
    IF b = <<>> THEN 0 ELSE SetBytes(SubSeq(b, 1, Len(b) - 1)) * 256 + b[Len(b)]

\* NewKeyPair: the public key is X.Bytes() || Y.Bytes().
PublicKeyBytes(key) == IntBytes(key.X) \o IntBytes(key.Y)

(***************************************************************************)
(* crypto/ecdsa on P-256, by its contract.  A private key D with public    *)
(* point (X, Y) signs a digest z with a fresh nonce k, giving (r, s) with  *)
(* r, s >= 1; Verify accepts (r, s) for (X, Y) and z exactly when the key  *)
(* of that point can produce it for z.  Coordinates and signature values   *)
(* are scaled to two bytes, and include values whose big-endian form is    *)
(* shorter than the full width.                                            *)
(***************************************************************************)
KeyPairs ==
    { [D |-> 3,  X |-> 4660, Y |-> 22136],     \* X, Y of full width
      [D |-> 5,  X |-> 513,  Y |-> 7],         \* Y one byte short
      [D |-> 11, X |-> 9,    Y |-> 1027] }     \* X one byte short

SigNonces == {2, 250, 700}

EcdsaR(k) == k
EcdsaS(d, z, k) == 1 + ((z + d * k * 37) % 600)

EcdsaSign(d, msg, k) == [r |-> EcdsaR(k), s |-> EcdsaS(d, Digest(msg), k)]

EcdsaVerify(x, y, msg, r, s) ==
    LET z == Digest(msg)
    IN \E key \in KeyPairs, k \in SigNonces :
          /\ key.X = x /\ key.Y = y
          /\ r = EcdsaR(k) /\ s = EcdsaS(key.D, z, k)

(***************************************************************************)
(* blockchain: transactions (tx.go and the transaction source file).       *)
(***************************************************************************)
RECURSIVE Concat(_)
Concat(ss) == IF ss = <<>> THEN <<>> ELSE ss[1] \o Concat(Tail(ss))

\* encoding/gob: a self-describing encoding; every field is framed.
GobBytes(b) == <<Len(b)>> \o b
GobInput(in) ==
    GobBytes(in.ID) \o <<in.Out>> \o GobBytes(in.Signature) \o GobBytes(in.PubKey)
GobOutput(out) == <<out.Value>> \o GobBytes(out.PubKeyHash)

Serialize(tx) ==
    GobBytes(tx.ID)
    \o <<Len(tx.Inputs)>> \o Concat([k \in 1..Len(tx.Inputs) |-> GobInput(tx.Inputs[k])])
    \o <<Len(tx.Outputs)>> \o Concat([k \in 1..Len(tx.Outputs) |-> GobOutput(tx.Outputs[k])])

Hash(tx) == Sha256(Serialize([tx EXCEPT !.ID = <<>>]))

IsCoinbase(tx) ==
    Len(tx.Inputs) = 1 /\ Len(tx.Inputs[1].ID) = 0 /\ tx.Inputs[1].Out = -1

TrimmedCopy(tx) ==
    [ID |-> tx.ID,
     Inputs |-> [k \in 1..Len(tx.Inputs) |->
                    [ID |-> tx.Inputs[k].ID, Out |-> tx.Inputs[k].Out,
                     Signature |-> <<>>, PubKey |-> <<>>]],
     Outputs |-> tx.Outputs]

\* prevTXs is a function from transaction IDs to transactions.
PrevMissing(tx, prevTXs) ==
    \E k \in 1..Len(tx.Inputs) : tx.Inputs[k].ID \notin DOMAIN prevTXs

\* prevTX.Outputs[in.Out] (the slice index is in.Out, counted from 0).
OutOfRange(tx, prevTXs) ==
    \E k \in 1..Len(tx.Inputs) :
        LET in == tx.Inputs[k]
        IN in.Out < 0 \/ in.Out >= Len(prevTXs[in.ID].Outputs)

\* fmt.Sprintf("%x\n", txCopy) with input inId carrying the referenced
\* output's PubKeyHash: the text shows every field of the copy.
DataToSign(tx, prevTXs, inId) ==
    LET in == tx.Inputs[inId]
        txCopy == [TrimmedCopy(tx) EXCEPT
                      !.Inputs[inId].PubKey = prevTXs[in.ID].Outputs[in.Out + 1].PubKeyHash]
    IN Serialize(txCopy)

\* signature := append(r.Bytes(), s.Bytes()...)
SignatureBytes(sig) == IntBytes(sig.r) \o IntBytes(sig.s)

\* Transaction.Sign with the nonces ks[inId] drawn by ecdsa.Sign.
Sign(tx, privKey, prevTXs, ks) ==
    IF IsCoinbase(tx) THEN tx
    ELSE [tx EXCEPT !.Inputs =
            [inId \in 1..Len(tx.Inputs) |->
                [tx.Inputs[inId] EXCEPT !.Signature =
                    SignatureBytes(EcdsaSign(privKey, DataToSign(tx, prevTXs, inId), ks[inId]))]]]

\* r, s from in.Signature and x, y from in.PubKey: each split at half length.
FirstHalf(b) == SubSeq(b, 1, Len(b) \div 2)
SecondHalf(b) == SubSeq(b, Len(b) \div 2 + 1, Len(b))

VerifyInput(tx, prevTXs, inId) ==
    LET in == tx.Inputs[inId]
    IN EcdsaVerify(SetBytes(FirstHalf(in.PubKey)), SetBytes(SecondHalf(in.PubKey)),
                   DataToSign(tx, prevTXs, inId),
                   SetBytes(FirstHalf(in.Signature)), SetBytes(SecondHalf(in.Signature)))

Verify(tx, prevTXs) ==
    IsCoinbase(tx) \/ \A inId \in 1..Len(tx.Inputs) : VerifyInput(tx, prevTXs, inId)

(***************************************************************************)
(* blockchain/merkle.go                                                    *)
(***************************************************************************)
Nil == [Data |-> <<-1>>]

NewMerkleNode(left, right, data) ==
    IF left = Nil /\ right = Nil
    THEN [Data |-> Sha256(data)]
    ELSE [Data |-> Sha256(left.Data \o right.Data)]

\* The inner loop: for j := 0; j < len(nodes); j += 2 { nodes[j], nodes[j+1] }.
\* nodes[j+1] is out of range when len(nodes) is odd.
LevelFaults(nodes) == Len(nodes) % 2 = 1

MerkleLevel(nodes) ==
    [k \in 1..(Len(nodes) \div 2) |->
        NewMerkleNode(nodes[2 * k - 1], nodes[2 * k], <<>>)]

\* The outer loop: for i := 0; i < len(data)/2; i++.
RECURSIVE MerkleLoop(_, _)
MerkleLoop(nodes, remaining) ==
    IF remaining = 0 THEN [fault |-> FALSE, nodes |-> nodes]
    ELSE IF LevelFaults(nodes) THEN [fault |-> TRUE, nodes |-> nodes]
    ELSE MerkleLoop(MerkleLevel(nodes), remaining - 1)

NewMerkleTree(data) ==
    LET padded == IF Len(data) % 2 # 0 THEN Append(data, data[Len(data)]) ELSE data
        leaves == [k \in 1..Len(padded) |-> NewMerkleNode(Nil, Nil, padded[k])]
        run    == MerkleLoop(leaves, Len(padded) \div 2)
    IN IF run.fault \/ run.nodes = <<>>
       THEN [kind |-> "panic: index out of range", Data |-> <<>>]
       ELSE [kind |-> "root", Data |-> run.nodes[1].Data]

\* The commitment the specification describes: the leaf level and every later
\* level of odd length has its last node duplicated and is then paired, until
\* one node remains (a single leaf is paired with itself, as for lengths 1..4
\* of NewMerkleTree).
RECURSIVE RefReduce(_)
RefReduce(level) ==
    LET padded == IF Len(level) % 2 # 0 THEN Append(level, level[Len(level)])
                  ELSE level
        next   == [k \in 1..(Len(padded) \div 2) |->
                      Sha256(padded[2 * k - 1] \o padded[2 * k])]
    IN IF Len(next) = 1 THEN next[1] ELSE RefReduce(next)

RefMerkleRoot(data) == RefReduce([k \in 1..Len(data) |-> Sha256(data[k])])

LeafValues == {<<1>>, <<2>>}

MerkleInit ==
    /\ mkData \in SeqsUpTo(LeafValues, MaxLeaves)
    /\ mkOut = NotRun

BuildMerkle ==
    /\ mkOut = NotRun
    /\ mkOut' = NewMerkleTree(mkData)
    /\ UNCHANGED mkData

(***************************************************************************)
(* blockchain: outputs, coinbase and NewTransaction.                       *)
(***************************************************************************)
\* TxOutput.Lock: the decoded address without version byte and checksum.
Lock(address) ==
    LET decoded == Base58Decode(address)
    IN SubSeq(decoded, 2, Len(decoded) - ChecksumLength)

NewTXOutput(value, address) == [Value |-> value, PubKeyHash |-> Lock(address)]

IsLockedWithKey(out, pubKeyHash) == out.PubKeyHash = pubKeyHash

MakeWallet(key) == [PrivateKey |-> key.D, PublicKey |-> PublicKeyBytes(key)]

Address(w) == AddressOf(PublicKeyHash(w.PublicKey))

NoTx == [ID |-> <<>>, Inputs |-> <<>>, Outputs |-> <<>>]

\* CoinbaseTx; data stands for the 24 random bytes drawn when none is given.
CoinbaseTx(to, data) ==
    LET txin == [ID |-> <<>>, Out |-> -1, Signature |-> <<>>, PubKey |-> data]
        txout == NewTXOutput(20, to)
        tx == [ID |-> <<>>, Inputs |-> <<txin>>, Outputs |-> <<txout>>]
    IN [tx EXCEPT !.ID = Hash(tx)]

\* The key order of the store.  Keys are digests, so their byte order is
\* unrelated to what was hashed; the order of an integer digest of the key
\* stands for it.
KeyRank(key) == Digest(key)

RECURSIVE SortRanked(_)
SortRanked(P) ==
    IF P = {} THEN <<>>
    ELSE LET least == CHOOSE p \in P : \A q \in P : p[1] <= q[1]
         IN <<least[2]>> \o SortRanked(P \ {least})

SortedKeys(S) == SortRanked({<<KeyRank(key), key>> : key \in S})

\* The outputs of one index entry locked with pubKeyHash: <<txID, outIdx, value>>,
\* outIdx counted from 0 in the stored list.
LockedIn(utxoSet, txID, pubKeyHash) ==
    LET outs == utxoSet[txID]
        idx == SelectSeq([k \in 1..Len(outs) |-> k],
                         LAMBDA k : IsLockedWithKey(outs[k], pubKeyHash))
    IN [k \in 1..Len(idx) |-> <<txID, idx[k] - 1, outs[idx[k]].Value>>]

RECURSIVE Collect(_, _, _, _, _)
Collect(cands, i, acc, amount, picked) ==
    IF i > Len(cands) \/ acc >= amount THEN [acc |-> acc, picked |-> picked]
    ELSE Collect(cands, i + 1, acc + cands[i][3], amount,
                 Append(picked, <<cands[i][1], cands[i][2]>>))

\* UTXOSet.FindSpendableOutputs: picked lists <<txID, outIdx>> in the order found.
FindSpendableOutputs(utxoSet, pubKeyHash, amount) ==
    LET keys == SortedKeys(DOMAIN utxoSet)
        cands == Concat([k \in 1..Len(keys) |-> LockedIn(utxoSet, keys[k], pubKeyHash)])
    IN Collect(cands, 1, 0, amount, <<>>)

ViewKeys(picked) == {picked[k][1] : k \in 1..Len(picked)}

KeyOrders(S) ==
    {f \in [1..Cardinality(S) -> S] : \A i, j \in 1..Cardinality(S) : i # j => f[i] # f[j]}

\* for txid, outs := range validOutputs: the keys of the map in the order
\* order, the indices of one key in the order they were appended.
InputsFrom(picked, order, pubKey) ==
    Concat([k \in 1..Len(order) |->
        LET mine == SelectSeq(picked, LAMBDA pr : pr[1] = order[k])
        IN [j \in 1..Len(mine) |->
               [ID |-> mine[j][1], Out |-> mine[j][2], Signature |-> <<>>, PubKey |-> pubKey]]])

\* BlockChain.FindTransaction over the stored blocks.
AllTxs(chainDb) ==
    UNION {{b.Transactions[k] : k \in 1..Len(b.Transactions)} : b \in {chainDb[h] : h \in DOMAIN chainDb}}

PrevTXs(chainDb, tx) ==
    LET wanted == {tx.Inputs[k].ID : k \in 1..Len(tx.Inputs)}
        all == AllTxs(chainDb)
        found == {id \in wanted : \E t \in all : t.ID = id}
    IN [id \in found |-> CHOOSE t \in all : t.ID = id]

\* BlockChain.SignTransaction / VerifyTransaction: gather prevTXs, delegate.
SignTransaction(chainDb, tx, privKey, ks) == Sign(tx, privKey, PrevTXs(chainDb, tx), ks)
VerifyTransaction(chainDb, tx) == Verify(tx, PrevTXs(chainDb, tx))

\* The transaction NewTransaction assembles from what the view returned.
BuildTx(w, to, amount, acc, inputs) ==
    LET from == Address(w)
        outputs == <<NewTXOutput(amount, to)>>
                   \o (IF acc > amount THEN <<NewTXOutput(acc - amount, from)>> ELSE <<>>)
        tx == [ID |-> <<>>, Inputs |-> inputs, Outputs |-> outputs]
    IN [tx EXCEPT !.ID = Hash(tx)]

\* The funds check left out.
InsufficientFundsUnchecked(acc, amount) == FALSE

\* if acc < amount { log.Panic("Error: not enough funds") }
InsufficientFunds(acc, amount) == acc < amount

\* NewTransaction with tx.ID = tx.Hash() moved after SignTransaction.
NewTransactionHashLast(w, to, amount, utxoSet, chainDb, order, ks) ==
    LET found == FindSpendableOutputs(utxoSet, PublicKeyHash(w.PublicKey), amount)
    IN IF InsufficientFunds(found.acc, amount)
       THEN [kind |-> "panic: not enough funds", tx |-> NoTx,
             acc |-> found.acc, view |-> found.picked]
       ELSE LET tx == [BuildTx(w, to, amount, found.acc,
                               InputsFrom(found.picked, order, w.PublicKey))
                          EXCEPT !.ID = <<>>]
                signed == SignTransaction(chainDb, tx, w.PrivateKey, ks)
            IN [kind |-> "tx", tx |-> [signed EXCEPT !.ID = Hash(signed)],
                acc |-> found.acc, view |-> found.picked]

\* NewTransaction: order is the iteration order of the validOutputs map, ks
\* the nonces ecdsa.Sign draws.
NewTransaction(w, to, amount, utxoSet, chainDb, order, ks) ==
    LET found == FindSpendableOutputs(utxoSet, PublicKeyHash(w.PublicKey), amount)
    IN IF InsufficientFunds(found.acc, amount)
       THEN [kind |-> "panic: not enough funds", tx |-> NoTx,
             acc |-> found.acc, view |-> found.picked]
       ELSE LET tx == BuildTx(w, to, amount, found.acc,
                              InputsFrom(found.picked, order, w.PublicKey))
            IN [kind |-> "tx", tx |-> SignTransaction(chainDb, tx, w.PrivateKey, ks),
                acc |-> found.acc, view |-> found.picked]

(***************************************************************************)
(* blockchain: blocks, the chain store and the UTXO index.                 *)
(***************************************************************************)
HashTransactions(txs) == NewMerkleTree([k \in 1..Len(txs) |-> Serialize(txs[k])])

\* ProofOfWork.Run: the digest of the block header; the search for a nonce
\* under the target is not modelled (nonce 0).
ProofRun(prevHash, txs, timestamp) ==
    [nonce |-> 0,
     hash |-> Sha256(prevHash \o HashTransactions(txs).Data \o <<timestamp, 12, 0>>)]

CreateBlock(txs, prevHash, height, now) ==
    LET pow == ProofRun(prevHash, txs, now)
    IN [Timestamp |-> now, Hash |-> pow.hash, Transactions |-> txs,
        PrevHash |-> prevHash, Nonce |-> pow.nonce, Height |-> height]

Genesis(coinbase, now) == CreateBlock(<<coinbase>>, <<>>, 0, now)

\* The blocks from the tip back to genesis.
RECURSIVE ChainFrom(_, _)
ChainFrom(chainDb, hash) ==
    IF hash = <<>> \/ hash \notin DOMAIN chainDb THEN <<>>
    ELSE <<chainDb[hash]>> \o ChainFrom(chainDb, chainDb[hash].PrevHash)

Reverse(seq) == [k \in 1..Len(seq) |-> seq[Len(seq) + 1 - k]]

\* UTXOSet.Update for one input: the referenced output is taken out of the
\* stored list of the entry, the entry is deleted when nothing remains.
SpendInput(index, in) ==
    IF in.ID \notin DOMAIN index THEN index
    ELSE LET outs == index[in.ID]
             kept == SelectSeq([k \in 1..Len(outs) |-> k], LAMBDA k : k - 1 # in.Out)
             updated == [k \in 1..Len(kept) |-> outs[kept[k]]]
         IN IF updated = <<>>
            THEN [id \in DOMAIN index \ {in.ID} |-> index[id]]
            ELSE [index EXCEPT ![in.ID] = updated]

RECURSIVE SpendInputs(_, _, _)
SpendInputs(index, inputs, k) ==
    IF k > Len(inputs) THEN index
    ELSE SpendInputs(SpendInput(index, inputs[k]), inputs, k + 1)

UpdateTx(index, tx) ==
    LET spent == IF IsCoinbase(tx) THEN index ELSE SpendInputs(index, tx.Inputs, 1)
    IN [id \in DOMAIN spent \cup {tx.ID} |-> IF id = tx.ID THEN tx.Outputs ELSE spent[id]]

RECURSIVE UpdateTxs(_, _, _)
UpdateTxs(index, txs, k) ==
    IF k > Len(txs) THEN index ELSE UpdateTxs(UpdateTx(index, txs[k]), txs, k + 1)

\* UTXOSet.Update(block)
Update(index, block) == UpdateTxs(index, block.Transactions, 1)

\* BlockChain.FindUTXO: per transaction, the outputs whose index no input of
\* the chain references.
SpentRefs(txs) ==
    UNION {{<<t.Inputs[k].ID, t.Inputs[k].Out>> : k \in 1..Len(t.Inputs)} :
              t \in {u \in txs : ~IsCoinbase(u)}}

UnspentOf(spent, tx) ==
    LET idx == SelectSeq([k \in 1..Len(tx.Outputs) |-> k],
                         LAMBDA k : <<tx.ID, k - 1>> \notin spent)
    IN [k \in 1..Len(idx) |-> tx.Outputs[idx[k]]]

FindUTXO(chainDb) ==
    LET all == AllTxs(chainDb)
        spent == SpentRefs(all)
        live == {t \in all : UnspentOf(spent, t) # <<>>}
    IN [id \in {t.ID : t \in live} |->
           UnspentOf(spent, CHOOSE t \in live : t.ID = id)]

\* UTXOSet.Reindex: drop every entry, store what FindUTXO returns.
Reindex(chainDb) == FindUTXO(chainDb)

\* The index built from nothing by Update, block after block from genesis.
RECURSIVE UpdateAll(_, _, _)
UpdateAll(index, blocks, k) ==
    IF k > Len(blocks) THEN index ELSE UpdateAll(Update(index, blocks[k]), blocks, k + 1)

IncrementalIndex(chainDb, tip) == UpdateAll(<<>>, Reverse(ChainFrom(chainDb, tip)), 1)

\* Addresses handed to ValidateAddress: every short string over alphabet and
\* non-alphabet characters, and encoded payloads with good and bad checksums.
SamplePkhs == {<<7>>, <<200, 3>>, <<0, 9>>}

BadChecksum(cs) == [cs EXCEPT ![ChecksumLength] = (cs[ChecksumLength] + 1) % 256]

SamplePayloads ==
    {<<Version>> \o h \o Checksum(<<Version>> \o h) : h \in SamplePkhs}
    \cup {<<Version>> \o h \o BadChecksum(Checksum(<<Version>> \o h)) : h \in SamplePkhs}
    \cup {<<1>> \o h \o Checksum(<<1>> \o h) : h \in SamplePkhs}
    \cup {<<Version, 5, 6, 7>>, <<9, 9, 9, 9>>, <<1, 2, 3>>}

SampleAddresses ==
    SeqsUpTo({0, 1, 57, 58}, MaxAddrLen)
    \cup {Base58Encode(p) : p \in SamplePayloads}
    \cup {Append(Base58Encode(p), 58) : p \in SamplePayloads}

AddrInit ==
    /\ vaAddr \in SampleAddresses
    /\ vaOut = NotRun

Validate ==
    /\ vaOut = NotRun
    /\ vaOut' = ValidateAddress(vaAddr)
    /\ UNCHANGED vaAddr

(***************************************************************************)
(* Signing and verifying one transaction against fixed previous            *)
(* transactions.                                                           *)
(***************************************************************************)
MkOutput(value, pubKeyHash) == [Value |-> value, PubKeyHash |-> pubKeyHash]
MkInput(id, out, pubKey) == [ID |-> id, Out |-> out, Signature |-> <<>>, PubKey |-> pubKey]
WithID(tx) == [tx EXCEPT !.ID = Hash(tx)]

SamplePrev(key) ==
    LET pkh == PublicKeyHash(PublicKeyBytes(key))
        p1 == WithID([ID |-> <<>>, Inputs |-> <<MkInput(<<>>, -1, <<1>>)>>,
                      Outputs |-> <<MkOutput(20, pkh)>>])
        p2 == WithID([ID |-> <<>>, Inputs |-> <<MkInput(<<>>, -1, <<2>>)>>,
                      Outputs |-> <<MkOutput(5, pkh), MkOutput(15, pkh)>>])
    IN <<p1, p2>>

SampleRefs == {<<1, 0>>, <<2, 0>>, <<2, 1>>}

SampleInputs ==
    {<<a>> : a \in SampleRefs}
    \cup {<<p[1], p[2]>> : p \in {q \in SampleRefs \X SampleRefs : q[1] # q[2]}}

SigInit ==
    /\ sgKey \in KeyPairs
    /\ \E refs \in SampleInputs :
         LET prev == SamplePrev(sgKey)
             pub == PublicKeyBytes(sgKey)
         IN /\ sgPrev = [id \in {prev[1].ID, prev[2].ID} |->
                            IF id = prev[1].ID THEN prev[1] ELSE prev[2]]
            /\ sgTx = WithID([ID |-> <<>>,
                              Inputs |-> [k \in 1..Len(refs) |->
                                  MkInput(prev[refs[k][1]].ID, refs[k][2], pub)],
                              Outputs |-> <<MkOutput(5, PublicKeyHash(pub))>>])
    /\ sgPc = "built"
    /\ sgOut = NotRun

SignTx ==
    /\ sgPc = "built"
    /\ ~PrevMissing(sgTx, sgPrev)
    /\ \E ks \in [1..Len(sgTx.Inputs) -> SigNonces] :
         sgTx' = Sign(sgTx, sgKey.D, sgPrev, ks)
    /\ sgPc' = "signed"
    /\ UNCHANGED <<sgKey, sgPrev, sgOut>>

VerifyTx ==
    /\ sgPc = "signed"
    /\ ~PrevMissing(sgTx, sgPrev)
    /\ sgOut' = [kind |-> IF Verify(sgTx, sgPrev) THEN "true" ELSE "false", Data |-> <<>>]
    /\ sgPc' = "verified"
    /\ UNCHANGED <<sgKey, sgPrev, sgTx>>

(***************************************************************************)
(* The commands on the chain: createblockchain, send -mine, reindexutxo,   *)
(* and the iterator.                                                       *)
(***************************************************************************)
ChainKeys == {key \in KeyPairs : key.D \in {3, 11}}
Wallets == {MakeWallet(key) : key \in ChainKeys}
Amounts == {-5, 5, 30}
ChainNonces == {2}

NoRes ==
    [op |-> "none", kind |-> "none", tx |-> NoTx, cb |-> NoTx,
     acc |-> 0, amount |-> 0, view |-> <<>>]

\* BlockChain.MineBlock: every transaction is verified, the block is built on
\* the tip with the next height.
MineBlock(chainDb, tip, txs, now) ==
    IF \E k \in 1..Len(txs) : ~VerifyTransaction(chainDb, txs[k])
    THEN [ok |-> FALSE, block |-> CreateBlock(<<>>, <<>>, 0, 0)]
    ELSE [ok |-> TRUE, block |-> CreateBlock(txs, tip, chainDb[tip].Height + 1, now)]

\* createblockchain -address: InitBlockChain, then UTXOSet.Reindex.
CreateBlockchain(address) ==
    /\ lastHash = <<>>
    /\ LET cbtx == CoinbaseTx(address, <<0>>)
           genesis == Genesis(cbtx, 0)
       IN /\ db' = (genesis.Hash :> genesis)
          /\ lastHash' = genesis.Hash
          /\ utxo' = Reindex(genesis.Hash :> genesis)
          /\ res' = [NoRes EXCEPT !.op = "createblockchain", !.kind = "ok", !.cb = cbtx]
    /\ UNCHANGED cbNonce

\* send -from -to -amount -mine: NewTransaction, a coinbase to the sender,
\* MineBlock, UTXOSet.Update.
Send(w, to, amount, nonces) ==
    /\ lastHash # <<>>
    /\ Cardinality(DOMAIN db) < MaxBlocks
    /\ LET found == FindSpendableOutputs(utxo, PublicKeyHash(w.PublicKey), amount)
           short == InsufficientFunds(found.acc, amount)
           \* the map order and the nonces are not drawn when NewTransaction
           \* panics; one nonce per transaction is explored
           orders == IF short THEN {<<>>} ELSE KeyOrders(ViewKeys(found.picked))
           draws == IF short THEN {<<>>}
                    ELSE {[k \in 1..Len(found.picked) |-> n] : n \in nonces}
       IN \E order \in orders, ks \in draws :
            LET made == NewTransaction(w, to, amount, utxo, db, order, ks)
                cbTx == CoinbaseTx(Address(w), <<cbNonce>>)
                mined == MineBlock(db, lastHash, <<cbTx, made.tx>>, db[lastHash].Height + 1)
                told == [NoRes EXCEPT !.op = "send", !.acc = made.acc,
                                      !.amount = amount, !.view = made.view]
            IN IF made.kind # "tx"
               THEN /\ res' = [told EXCEPT !.kind = made.kind]
                    /\ UNCHANGED <<db, lastHash, utxo, cbNonce>>
               ELSE IF ~mined.ok
               THEN /\ res' = [told EXCEPT !.kind = "panic: invalid transaction",
                                           !.tx = made.tx, !.cb = cbTx]
                    /\ UNCHANGED <<db, lastHash, utxo, cbNonce>>
               ELSE /\ db' = db @@ (mined.block.Hash :> mined.block)
                    /\ lastHash' = mined.block.Hash
                    /\ utxo' = Update(utxo, mined.block)
                    /\ cbNonce' = cbNonce + 1
                    /\ res' = [told EXCEPT !.kind = "ok", !.tx = made.tx, !.cb = cbTx]

\* reindexutxo
ReindexUTXO ==
    /\ lastHash # <<>>
    /\ utxo' = Reindex(db)
    /\ res' = [NoRes EXCEPT !.op = "reindexutxo", !.kind = "ok"]
    /\ UNCHANGED <<db, lastHash, cbNonce>>

\* BlockChain.Begin
Begin ==
    /\ lastHash # <<>>
    /\ itHash' = lastHash
    /\ itPc' = "open"
    /\ itYield' = <<>>
    /\ itTip' = lastHash

\* Iterator.Next: txn.Get(iter.CurrentHash) fails on a key that is empty or
\* absent and Handle panics; otherwise the block is returned and CurrentHash
\* moves to its PrevHash.
NextFaults(chainDb, currentHash) == currentHash \notin DOMAIN chainDb

\* CurrentHash left on the block just read.
NextHashStuck(block) == block.Hash

\* iter.CurrentHash = block.PrevHash
NextHash(block) == block.PrevHash

IteratorNext ==
    /\ itPc = "open"
    /\ UNCHANGED itTip
    /\ IF NextFaults(db, itHash)
       THEN /\ itPc' = "fault"
            /\ UNCHANGED <<itHash, itYield>>
       ELSE /\ itYield' = Append(itYield, db[itHash].Hash)
            /\ itHash' = NextHash(db[itHash])
            /\ UNCHANGED itPc

ChainInit ==
    /\ db = <<>> /\ lastHash = <<>> /\ utxo = <<>>
    /\ cbNonce = 1 /\ res = NoRes

IterIdle == itHash = <<>> /\ itPc = "none" /\ itYield = <<>> /\ itTip = <<>>

(***************************************************************************)
(* Specifications.                                                         *)
(***************************************************************************)
MerkleIdle == mkData = <<>> /\ mkOut = NotRun
AddrIdle == vaAddr = <<>> /\ vaOut = NotRun
SigIdle ==
    /\ sgKey = [D |-> 0, X |-> 0, Y |-> 0] /\ sgPrev = <<>>
    /\ sgTx = [ID |-> <<>>, Inputs |-> <<>>, Outputs |-> <<>>]
    /\ sgPc = "idle" /\ sgOut = NotRun

Others(group) ==
    /\ (group = "merkle" \/ MerkleIdle)
    /\ (group = "addr" \/ AddrIdle)
    /\ (group = "sig" \/ SigIdle)
    /\ (group = "chain" \/ (ChainInit /\ IterIdle))

InitMerkle == MerkleInit /\ Others("merkle")
NextMerkle == BuildMerkle /\ UNCHANGED <<vaVars, sgVars, chVars, itVars>>
SpecMerkle == InitMerkle /\ [][NextMerkle]_vars

InitAddr == AddrInit /\ Others("addr")
NextAddr == Validate /\ UNCHANGED <<mkVars, sgVars, chVars, itVars>>
SpecAddr == InitAddr /\ [][NextAddr]_vars

InitSig == SigInit /\ Others("sig")
NextSig == (SignTx \/ VerifyTx) /\ UNCHANGED <<mkVars, vaVars, chVars, itVars>>
SpecSig == InitSig /\ [][NextSig]_vars

InitChain == ChainInit /\ IterIdle /\ Others("chain")

CreateCmd ==
    /\ \E w \in Wallets : CreateBlockchain(Address(w))
    /\ UNCHANGED <<mkVars, vaVars, sgVars, itVars>>
SendCmd ==
    /\ \E w \in Wallets, to \in Wallets, amount \in Amounts :
          Send(w, Address(to), amount, ChainNonces)
    /\ UNCHANGED <<mkVars, vaVars, sgVars, itVars>>
ReindexCmd == ReindexUTXO /\ UNCHANGED <<mkVars, vaVars, sgVars, itVars>>

NextChain == CreateCmd \/ SendCmd \/ ReindexCmd
Spec == InitChain /\ [][NextChain]_vars

\* The iterator over chains grown by plain payments.
PayCmd ==
    /\ \E w \in Wallets, to \in Wallets : Send(w, Address(to), 5, {2})
    /\ UNCHANGED <<mkVars, vaVars, sgVars, itVars>>
BeginCmd == Begin /\ UNCHANGED <<mkVars, vaVars, sgVars, chVars>>
StepCmd == IteratorNext /\ UNCHANGED <<mkVars, vaVars, sgVars, chVars>>

NextIter == CreateCmd \/ PayCmd \/ BeginCmd \/ StepCmd
SpecIter == InitChain /\ [][NextIter]_vars

(***************************************************************************)
(* Claims about the Merkle builder.                                        *)
(***************************************************************************)

\* C2 (as stated): for every non-empty sequence of leaves the build completes
\* and returns the root obtained by pairing every level, duplicating the last
\* node of each odd level, until one node remains.
C2_RootForEveryLength ==
    (mkOut # NotRun /\ Len(mkData) >= 1) =>
        (mkOut.kind = "root" /\ mkOut.Data = RefMerkleRoot(mkData))

\* C8 (as stated): the build of an empty sequence of leaves ends in the error
\* kind EmptyBlockError, not in another fault.
C8_EmptyIsEmptyBlockError ==
    (mkOut # NotRun /\ mkData = <<>>) => mkOut.kind = "EmptyBlockError"

\* What the builder does return on 1 to 4 leaves.
MerkleUpToFour ==
    (mkOut # NotRun /\ Len(mkData) \in 1..4) =>
        (mkOut.kind = "root" /\ mkOut.Data = RefMerkleRoot(mkData))

(***************************************************************************)
(* Claims about addresses.                                                 *)
(***************************************************************************)
AddrDecodable(a) ==
    /\ ~Base58DecodeFails(a)
    /\ Len(Base58Decode(a)) >= ChecksumLength + 1

AddrChecksumOk(a) ==
    LET d == Base58Decode(a)
        n == Len(d)
    IN SubSeq(d, n - ChecksumLength + 1, n) = Checksum(SubSeq(d, 1, n - ChecksumLength))

\* C7 (as stated): validate_address returns a boolean on every input: false
\* when decoding fails or the payload is too short, and otherwise true exactly
\* when the trailing 4 bytes equal the recomputed checksum.
C7_ValidateNeverFaults ==
    vaOut # NotRun =>
        /\ vaOut.kind \in {"true", "false"}
        /\ (~AddrDecodable(vaAddr) => vaOut.kind = "false")
        /\ (AddrDecodable(vaAddr) => (vaOut.kind = "true" <=> AddrChecksumOk(vaAddr)))

\* On decodable input of sufficient length the answer is the checksum comparison.
ValidateOnDecodable ==
    (vaOut # NotRun /\ AddrDecodable(vaAddr)) =>
        /\ vaOut.kind \in {"true", "false"}
        /\ (vaOut.kind = "true" <=> AddrChecksumOk(vaAddr))

\* Base58 round trip on the sample payloads.
Base58RoundTrip == \A p \in SamplePayloads : Base58Decode(Base58Encode(p)) = p

ValidAddressAccepted == ~(vaOut.kind = "true")

(***************************************************************************)
(* Claims about signatures.                                                *)
(***************************************************************************)

\* C4 (as stated): a non-coinbase transaction whose inputs reference present
\* transactions verifies after it has been signed, for every key pair and
\* every (r, s) the signer can produce.
C4_SignThenVerify == sgPc = "verified" => sgOut.kind = "true"

SomeVerified == ~(sgPc = "verified" /\ sgOut.kind = "true")

(***************************************************************************)
(* Claims about transactions, the chain and the UTXO index.                *)
(***************************************************************************)

\* Every output stored in the chain has a value >= 0 (no payment of a
\* negative amount was mined).
NonNegativeChain ==
    \A tx \in AllTxs(db) : \A k \in 1..Len(tx.Outputs) : tx.Outputs[k].Value >= 0

C5_IdIsHashOfReturned ==
    /\ res.cb # NoTx => res.cb.ID = Hash(res.cb)
    /\ res.tx # NoTx => res.tx.ID = Hash(res.tx)

Unsigned(tx) ==
    [tx EXCEPT !.Inputs = [k \in 1..Len(tx.Inputs) |->
                              [tx.Inputs[k] EXCEPT !.Signature = <<>>]]]

\* C5 (amended): a coinbase has ID = Hash(tx); a transaction returned by
\* NewTransaction has the ID that was taken before signing, the digest of
\* the transaction with ID cleared and every input's signature empty.
C5_IdIsHashBeforeSigning ==
    /\ res.cb # NoTx => res.cb.ID = Hash(res.cb)
    /\ res.tx # NoTx => res.tx.ID = Hash(Unsigned(res.tx))

C5_SignedTxReturned ==
    /\ res.op = "send" /\ res.kind = "ok"
    /\ Len(res.tx.Inputs) >= 2
    /\ \A k \in 1..Len(res.tx.Inputs) : res.tx.Inputs[k].Signature # <<>>
    /\ res.cb # NoTx

Aborted(kind) == kind \in {"panic: not enough funds", "panic: invalid transaction"}

\* C6 (as stated): with less than amount accumulated, NewTransaction ends in
\* a recoverable error after which the caller continues, returns no
\* transaction and leaves chain store, tip and index unchanged.
C6_RecoverableInsufficientFunds ==
    (res.op = "send" /\ res.acc < res.amount) =>
        (res.kind = "error: InsufficientFunds" /\ ~Aborted(res.kind) /\ res.tx = NoTx)

\* C6 (amended): with less than amount accumulated, NewTransaction panics
\* ("not enough funds", which aborts the command), returns no transaction
\* and leaves chain store, tip and index unchanged.
C6_PanicLeavesStateUnchanged ==
    [][(res'.op = "send" /\ res'.acc < res'.amount) =>
          /\ res'.kind = "panic: not enough funds"
          /\ res'.tx = NoTx
          /\ UNCHANGED <<db, lastHash, utxo>>]_vars

C6_ShortOfFunds ==
    /\ res.op = "send" /\ res.kind = "panic: not enough funds"
    /\ res.view # <<>> /\ res.acc < res.amount
    /\ Cardinality(DOMAIN db) >= 2

InputRefs(tx) == [k \in 1..Len(tx.Inputs) |-> <<tx.Inputs[k].ID, tx.Inputs[k].Out>>]

\* C9 (as stated): the inputs of the transaction NewTransaction returns are
\* the (prev_tx_id, out_index) pairs in exactly the order the UTXO view
\* returned them, so that two runs from one state agree.  Stated on the
\* chains whose outputs are all non-negative (see C1).
C9_InputsInViewOrder ==
    (res.tx # NoTx /\ NonNegativeChain /\ res.amount > 0) =>
        InputRefs(res.tx) = res.view

\* Whatever the order, the inputs are the pairs the view returned.
InputsAreTheView ==
    res.tx # NoTx =>
        /\ Len(res.tx.Inputs) = Len(res.view)
        /\ {InputRefs(res.tx)[k] : k \in 1..Len(res.tx.Inputs)}
              = {res.view[k] : k \in 1..Len(res.view)}

\* C10 (as stated): every output of a transaction NewTransaction returns has
\* a non-negative value, for every amount it accepts.
C10_OutputsNonNegative ==
    res.tx # NoTx => \A k \in 1..Len(res.tx.Outputs) : res.tx.Outputs[k].Value >= 0

(***************************************************************************)
(* Claims about the iterator.                                              *)
(***************************************************************************)
Hashes(blocks) == [k \in 1..Len(blocks) |-> blocks[k].Hash]

\* C3 (as stated, its last part): stepping the iterator never faults; once
\* CurrentHash is empty no further block is read.
C3_NoFaultAfterGenesis == itPc # "fault"

\* C3 (amended): the blocks an iterator returns are the blocks of the chain
\* from the tip it was created on back to genesis, each once and in that
\* order; CurrentHash is empty exactly when the genesis block (empty
\* PrevHash) has been returned; a step taken after that faults, and it is
\* the only step that does.
C3_IteratorWalksChain ==
    LET expected == Hashes(ChainFrom(db, itTip))
        n == Len(itYield)
    IN itPc # "none" =>
          /\ n <= Len(expected)
          /\ itYield = SubSeq(expected, 1, n)
          /\ Cardinality({itYield[k] : k \in 1..n}) = n
          /\ itHash = (IF n < Len(expected) THEN expected[n + 1] ELSE <<>>)
          /\ (itHash = <<>> => db[itYield[n]].PrevHash = <<>> /\ db[itYield[n]].Height = 0)
          /\ (itPc = "fault" => itHash = <<>>)

C3_WalkedToGenesis ==
    itPc = "open" /\ itHash = <<>> /\ Len(itYield) >= 2
====
